---- MODULE Spec2Model ----
(***************************************************************************)
(* State-machine model of the synchronisation core of the SQL / e-commerce *)
(* connector: the sync engine (services/sync_engine.py), the scheduler     *)
(* (services/scheduler.py), the mapping endpoints (api/mappings.py), the   *)
(* admin panel toggle (admin_app.py) and process start (main.py).          *)
(***************************************************************************)
EXTENDS Integers, Sequences, FiniteSets, TLC

\* ---------------------------------------------------------------- bounds
\* number of FieldMapping rows ever created (autoincrement ids 1..MaxMappings)
MaxMappings == 2
\* number of SyncLog rows ever created (autoincrement ids 1..MaxLogs)
MaxLogs == 2
\* largest batch a fetch returns
MaxRecords == 2
\* largest sync_interval_minutes a request carries
MaxInterval == 2
\* number of runs of the mapping the engine specification follows
MaxEngineRuns == 1
\* the source fields and the target fields a record or a field mapping may name
MaxFields == 2
\* the longest credential string
MaxStrLen == 3
\* the initialisation vectors Fernet may draw for one encryption
MaxIv == 3
\* the most requests in a row that the network fails
MaxFails == 9

\* ------------------------------------------------------------- constants
\* schemas.py: FieldMappingCreate.sync_interval_minutes default
DefaultInterval == 60
\* shopify_client.py, woocommerce_client.py: @retry(stop=stop_after_attempt(3))
StopAfterAttempt == 3
\* shopify_client.py: get_data(limit=250); woocommerce_client.py: get_data(per_page=100)
ShopifyLimit == 250
WooPerPage == 100

\* SQL NULL / Python None, and a present value
Null == <<>>
Some(v) == <<v>>

MappingIds == 1..MaxMappings
\* the schema accepts any int for sync_interval_minutes (no validator)
Intervals == 0..MaxInterval
\* models.py: SyncDirection
SyncDirection == {"to_platform", "from_platform", "bidirectional"}

VARIABLES
    mappings,    \* field_mappings table: id -> row
    mappingSeq,  \* last autoincrement id handed out for field_mappings
    jobs,        \* the scheduler's job store (persisted, SQLAlchemyJobStore)
    logs,        \* sync_logs table: id -> row
    logSeq,      \* last autoincrement id handed out for sync_logs
    inflight,    \* executions of execute_sync between its two commits
    last         \* the operation performed by the latest step and its outcome

vars == <<mappings, mappingSeq, jobs, logs, logSeq, inflight, last>>

\* ------------------------------------------------------------- scheduler
\* scheduler.py:71  job_id = f"sync_mapping_{field_mapping.id}"
JobId(id) == <<"sync_mapping", id>>

\* APScheduler remove_job: raises JobLookupError when the id is absent
scheduler_remove_job(J, jid) ==
    [jobs   |-> {j \in J : j.id # jid},
     raised |-> ~(\E j \in J : j.id = jid)]

\* a remove_sync_job that lets the lookup error escape
remove_sync_job_uncaught(J, jid) ==
    [jobs   |-> scheduler_remove_job(J, jid).jobs,
     found  |-> ~scheduler_remove_job(J, jid).raised,
     raised |-> scheduler_remove_job(J, jid).raised]

\* scheduler.py:98-109  the lookup error is caught and logged (line 109);
\* found tells which of the two log lines was written
remove_sync_job(J, jid) ==
    [jobs   |-> scheduler_remove_job(J, jid).jobs,
     found  |-> ~scheduler_remove_job(J, jid).raised,
     raised |-> FALSE]

\* scheduler.py:77-89  IntervalTrigger(minutes=...) and
\* scheduler.add_job(..., id=job_id, replace_existing=True)
scheduler_add_job(J, jid, minutes, mid) ==
    {j \in J : j.id # jid} \cup {[id |-> jid, minutes |-> minutes, arg |-> mid]}

\* an add_sync_job that neither removes nor replaces the existing job
add_sync_job_keeps_old(J, mid, row) ==
    IF ~row.is_active
    THEN [jobs |-> J, ret |-> Null]
    ELSE [jobs |-> J \cup {[id |-> JobId(mid),
                            minutes |-> row.sync_interval_minutes,
                            arg |-> mid]},
          ret  |-> Some(JobId(mid))]

\* an add_sync_job that removes the existing job before it looks at is_active
add_sync_job_removes_first(J, mid, row) ==
    IF ~row.is_active
    THEN [jobs |-> remove_sync_job(J, JobId(mid)).jobs, ret |-> Null]
    ELSE [jobs |-> scheduler_add_job(remove_sync_job(J, JobId(mid)).jobs,
                                     JobId(mid), row.sync_interval_minutes, mid),
          ret  |-> Some(JobId(mid))]

\* scheduler.py:57-96  an inactive mapping returns None at line 69, before
\* the job store is touched
add_sync_job(J, mid, row) ==
    IF ~row.is_active
    THEN [jobs |-> J, ret |-> Null]
    ELSE [jobs |-> scheduler_add_job(remove_sync_job(J, JobId(mid)).jobs,
                                     JobId(mid), row.sync_interval_minutes, mid),
          ret  |-> Some(JobId(mid))]

\* scheduler.py:111-121
update_sync_job(J, mid, row) == add_sync_job(J, mid, row)

\* the query of scheduler.py:127-129
ActiveMappings(M) == {m \in DOMAIN M : M[m].is_active}

\* scheduler.py:133-134  for mapping in active_mappings: add_sync_job(mapping)
RECURSIVE reschedule_loop(_, _, _)
reschedule_loop(J, M, todo) ==
    IF todo = {} THEN J
    ELSE LET m == CHOOSE x \in todo : \A y \in todo : x <= y
         IN  reschedule_loop(add_sync_job(J, m, M[m]).jobs, M, todo \ {m})

\* a reschedule_all_jobs that trusts the persisted job store alone
reschedule_all_jobs_store_only(J, M) == J

\* scheduler.py:123-137
reschedule_all_jobs(J, M) == reschedule_loop(J, M, ActiveMappings(M))

\* the timers of one mapping identity
TimersOf(J, mid) == {j \in J : j.id = JobId(mid)}

\* ------------------------------------------------------------ operations
Op(name, arg, res) ==
    [op |-> name, arg |-> arg, res |-> res, again |-> FALSE,
     via |-> "api", log |-> 0, env |-> <<>>, writes |-> <<>>,
     clients |-> [opened |-> {}, closed |-> {}], out |-> res]

\* a direct call of the scheduler; again: the step before was the same call
\* with the same argument
OpSched(name, arg, res) ==
    [Op(name, arg, res) EXCEPT !.again = (last.op = name /\ last.arg = arg)]

Init ==
    /\ mappings = <<>>
    /\ mappingSeq = 0
    /\ jobs = {}
    /\ logs = <<>>
    /\ logSeq = 0
    /\ inflight = {}
    /\ last = Op("init", 0, "ok")

\* rows of a table that stay when the keys in gone are deleted
Without(f, gone) == [k \in DOMAIN f \ gone |-> f[k]]

\* models.py:147  FieldMapping.sync_logs cascade="all, delete-orphan"
LogsOf(L, mids) == {l \in DOMAIN L : L[l].field_mapping_id \in mids}

\* api/mappings.py:25-41  POST /mappings
CreateMapping(dir, minutes, resource) ==
    /\ mappingSeq < MaxMappings
    /\ LET mid == mappingSeq + 1
           row == [is_active |-> TRUE,
                   sync_interval_minutes |-> minutes,
                   sync_direction |-> dir,
                   platform_resource |-> resource,
                   last_sync |-> Null]
       IN  /\ mappings' = (mid :> row) @@ mappings
           /\ mappingSeq' = mid
           /\ jobs' = IF row.is_active THEN add_sync_job(jobs, mid, row).jobs ELSE jobs
           /\ last' = Op("create_mapping", mid, "201")
    /\ UNCHANGED <<logs, logSeq, inflight>>

\* api/mappings.py:80-108  PUT /mappings/{id}; an unset field is Null
UpdateMapping(mid, active, minutes) ==
    /\ mid \in DOMAIN mappings
    /\ LET old == mappings[mid]
           row == [old EXCEPT
                     !.is_active = IF active = Null THEN @ ELSE active[1],
                     !.sync_interval_minutes = IF minutes = Null THEN @ ELSE minutes[1]]
       IN  /\ mappings' = [mappings EXCEPT ![mid] = row]
           /\ jobs' = IF row.is_active
                      THEN update_sync_job(jobs, mid, row).jobs
                      ELSE remove_sync_job(jobs, JobId(mid)).jobs
           /\ last' = Op("update_mapping", mid, "200")
    /\ UNCHANGED <<mappingSeq, logs, logSeq, inflight>>

\* api/mappings.py:111-130  DELETE /mappings/{id}
DeleteMapping(mid) ==
    /\ mid \in DOMAIN mappings
    /\ jobs' = remove_sync_job(jobs, JobId(mid)).jobs
    /\ mappings' = Without(mappings, {mid})
    /\ logs' = Without(logs, LogsOf(logs, {mid}))
    /\ last' = Op("delete_mapping", mid, "204")
    /\ UNCHANGED <<mappingSeq, logSeq, inflight>>

\* admin_app.py:336-356  POST /mappings/{id}/toggle (the admin panel process)
ToggleMapping(mid) ==
    /\ mid \in DOMAIN mappings
    /\ mappings' = [mappings EXCEPT ![mid].is_active = ~@]
    /\ last' = Op("toggle_mapping", mid, "200")
    /\ UNCHANGED <<mappingSeq, jobs, logs, logSeq, inflight>>

\* api/profiles.py:86-102  DELETE /profiles/{id} for the profile that owns the
\* connections: the delete cascades to connections, mappings and sync logs
\* (models.py:48-49, 77-78, 109, 147) and never touches the scheduler
DeleteProfile ==
    /\ DOMAIN mappings # {}
    /\ mappings' = <<>>
    /\ logs' = <<>>
    /\ last' = Op("delete_profile", 0, "204")
    /\ UNCHANGED <<mappingSeq, jobs, logSeq, inflight>>

\* a direct call of SyncScheduler.add_sync_job with a stored mapping
AddJob(mid) ==
    /\ mid \in DOMAIN mappings
    /\ LET r == add_sync_job(jobs, mid, mappings[mid])
       IN  /\ jobs' = r.jobs
           /\ last' = OpSched("add_sync_job", mid, IF r.ret = Null THEN "none" ELSE "job_id")
    /\ UNCHANGED <<mappings, mappingSeq, logs, logSeq, inflight>>

\* a direct call of SyncScheduler.update_sync_job with a stored mapping
UpdateJob(mid) ==
    /\ mid \in DOMAIN mappings
    /\ LET r == update_sync_job(jobs, mid, mappings[mid])
       IN  /\ jobs' = r.jobs
           /\ last' = OpSched("update_sync_job", mid, IF r.ret = Null THEN "none" ELSE "job_id")
    /\ UNCHANGED <<mappings, mappingSeq, logs, logSeq, inflight>>

\* a direct call of SyncScheduler.remove_sync_job with any job id
RemoveJob(mid) ==
    /\ LET r == remove_sync_job(jobs, JobId(mid))
       IN  /\ jobs' = r.jobs
           /\ last' = OpSched("remove_sync_job", mid,
                          IF r.raised THEN "raised"
                          ELSE IF r.found THEN "removed" ELSE "absent")
    /\ UNCHANGED <<mappings, mappingSeq, logs, logSeq, inflight>>

\* main.py:24-41  process (re)start: the executions of the old process are
\* gone, the job store is read back from the database (scheduler.py:24-32),
\* then reschedule_all_jobs runs
Lifespan ==
    /\ inflight' = {}
    /\ jobs' = reschedule_all_jobs(jobs, mappings)
    /\ last' = Op("reschedule_all_jobs", 0,
                  IF jobs' = jobs THEN "unchanged" ELSE "rescheduled")
    /\ UNCHANGED <<mappings, mappingSeq, logs, logSeq>>

\* ------------------------------------------------------------ sync engine
\* What the outside world does during one pass: which step raises before the
\* loop (abort), how many records the fetch returns (n) and which of them
\* the sink refuses (bad)
Aborts == {"platform_client", "db_client", "fetch"}
Envs ==
    {[abort |-> a, n |-> 0, bad |-> {}] : a \in Aborts}
    \cup UNION {{[abort |-> "none", n |-> k, bad |-> b] : b \in SUBSET (1..k)} :
                  k \in 0..MaxRecords}
NoEnv == [abort |-> "unused", n |-> 0, bad |-> {}]
WellFormed(e) == e.bad \subseteq 1..e.n

\* sync_engine.py:114-119, 183-188
\* together with what the pass did to the outside world: the write attempts
\* in the order they were issued, the clients constructed and the clients closed
EmptyStats ==
    [records_processed |-> 0, records_successful |-> 0, records_failed |-> 0,
     errors |-> <<>>, writes |-> <<>>, opened |-> {}, closed |-> {}]

\* a record loop in which the first failing record ends the batch
RECURSIVE record_loop_stops(_, _, _, _, _)
record_loop_stops(i, e, pass, writes_it, stats) ==
    IF i > e.n THEN stats
    ELSE IF writes_it /\ i \in e.bad
         THEN [stats EXCEPT
                 !.records_processed = @ + 1,
                 !.records_failed = @ + 1,
                 !.errors = Append(@, "Failed to sync record"),
                 !.writes = Append(@, [pass |-> pass, rec |-> i, ok |-> FALSE])]
         ELSE record_loop_stops(i + 1, e, pass, writes_it,
                [stats EXCEPT
                   !.records_processed = @ + 1,
                   !.records_successful = @ + 1,
                   !.writes = IF writes_it
                              THEN Append(@, [pass |-> pass, rec |-> i, ok |-> TRUE])
                              ELSE @])

\* a record loop that counts a failed record as successful too
RECURSIVE record_loop_double_counts(_, _, _, _, _)
record_loop_double_counts(i, e, pass, writes_it, stats) ==
    IF i > e.n THEN stats
    ELSE IF writes_it /\ i \in e.bad
         THEN record_loop_double_counts(i + 1, e, pass, writes_it,
                [stats EXCEPT
                   !.records_processed = @ + 1,
                   !.records_successful = @ + 1,
                   !.records_failed = @ + 1,
                   !.errors = Append(@, "Failed to sync record"),
                   !.writes = Append(@, [pass |-> pass, rec |-> i, ok |-> FALSE])])
         ELSE record_loop_double_counts(i + 1, e, pass, writes_it,
                [stats EXCEPT
                   !.records_processed = @ + 1,
                   !.records_successful = @ + 1,
                   !.writes = IF writes_it
                              THEN Append(@, [pass |-> pass, rec |-> i, ok |-> TRUE])
                              ELSE @])

\* sync_engine.py:137-159 and 207-230  for record in ...: the record is
\* counted, transformed and written; a write that raises is counted as failed
\* and its message appended; writes_it is false where the loop issues no write
RECURSIVE record_loop(_, _, _, _, _)
record_loop(i, e, pass, writes_it, stats) ==
    IF i > e.n THEN stats
    ELSE IF writes_it /\ i \in e.bad
         THEN record_loop(i + 1, e, pass, writes_it,
                [stats EXCEPT
                   !.records_processed = @ + 1,
                   !.records_failed = @ + 1,
                   !.errors = Append(@, "Failed to sync record"),
                   !.writes = Append(@, [pass |-> pass, rec |-> i, ok |-> FALSE])])
         ELSE record_loop(i + 1, e, pass, writes_it,
                [stats EXCEPT
                   !.records_processed = @ + 1,
                   !.records_successful = @ + 1,
                   !.writes = IF writes_it
                              THEN Append(@, [pass |-> pass, rec |-> i, ok |-> TRUE])
                              ELSE @])

\* sync_engine.py:124-127 and 194-197  the clients a pass has constructed when
\* it leaves the try block: the platform client first, then the database
\* client; the step that raises constructs nothing
opened_by(pass, abort) ==
    IF abort = "platform_client" THEN {}
    ELSE IF abort = "db_client" THEN {<<pass, "platform_client">>}
    ELSE {<<pass, "platform_client">>, <<pass, "db_client">>}

\* the clients closed when the pass returns.  db_client.close() is the last
\* statement of the try block (161, 232) and is skipped by an exception before
\* it.  The pass never closes the platform client; the only reference to it is
\* the local variable, and the client is finalised when the pass returns
\* (integrations/shopify_client.py:34-37).
closed_by(pass, abort) ==
    (opened_by(pass, abort) \cap {<<pass, "platform_client">>})
    \cup (IF abort = "none" THEN {<<pass, "db_client">>} ELSE {})

\* sync_engine.py:101-168  an exception of _get_platform_client,
\* _get_database_client or get_data is caught by the outer except (163-166)
sync_from_platform_to_database(row, e) ==
    LET stats == [EmptyStats EXCEPT !.opened = opened_by("from_platform", e.abort),
                                    !.closed = closed_by("from_platform", e.abort)]
    IN  IF e.abort # "none"
        THEN [stats EXCEPT !.errors = <<"Sync failed">>]
        ELSE record_loop(1, e, "from_platform", TRUE, stats)

\* sync_engine.py:170-239  create_product is called for "products" only (219-221)
sync_from_database_to_platform(row, e) ==
    LET stats == [EmptyStats EXCEPT !.opened = opened_by("to_platform", e.abort),
                                    !.closed = closed_by("to_platform", e.abort)]
    IN  IF e.abort # "none"
        THEN [stats EXCEPT !.errors = <<"Sync failed">>]
        ELSE record_loop(1, e, "to_platform", row.platform_resource = "products", stats)

\* a bidirectional sync that runs the database-to-platform pass first
sync_bidirectional_db_first(row, e1, e2) ==
    LET stats_from_db == sync_from_database_to_platform(row, e2)
        stats_from_platform == sync_from_platform_to_database(row, e1)
    IN  [from_platform |-> stats_from_platform,
         from_database |-> stats_from_db,
         total_records_processed |->
             stats_from_platform.records_processed + stats_from_db.records_processed,
         total_records_successful |->
             stats_from_platform.records_successful + stats_from_db.records_successful,
         total_records_failed |->
             stats_from_platform.records_failed + stats_from_db.records_failed,
         writes |-> stats_from_db.writes \o stats_from_platform.writes,
         opened |-> stats_from_platform.opened \cup stats_from_db.opened,
         closed |-> stats_from_platform.closed \cup stats_from_db.closed]

\* a bidirectional sync that gives up after a first pass that reported errors
sync_bidirectional_stops(row, e1, e2) ==
    LET stats_from_platform == sync_from_platform_to_database(row, e1)
        stats_from_db == IF stats_from_platform.errors # <<>>
                         THEN EmptyStats
                         ELSE sync_from_database_to_platform(row, e2)
    IN  [from_platform |-> stats_from_platform,
         from_database |-> stats_from_db,
         total_records_processed |->
             stats_from_platform.records_processed + stats_from_db.records_processed,
         total_records_successful |->
             stats_from_platform.records_successful + stats_from_db.records_successful,
         total_records_failed |->
             stats_from_platform.records_failed + stats_from_db.records_failed,
         writes |-> stats_from_platform.writes \o stats_from_db.writes,
         opened |-> stats_from_platform.opened \cup stats_from_db.opened,
         closed |-> stats_from_platform.closed \cup stats_from_db.closed]

\* sync_engine.py:241-280  the platform-to-database pass is called and returns
\* (257) before the database-to-platform pass is called (260); the combined
\* dict has the two stats and the three totals and no "errors" key (262-278).
\* writes, opened and closed are what the two calls did, in call order.
sync_bidirectional(row, e1, e2) ==
    LET stats_from_platform == sync_from_platform_to_database(row, e1)
        stats_from_db == sync_from_database_to_platform(row, e2)
    IN  [from_platform |-> stats_from_platform,
         from_database |-> stats_from_db,
         total_records_processed |->
             stats_from_platform.records_processed + stats_from_db.records_processed,
         total_records_successful |->
             stats_from_platform.records_successful + stats_from_db.records_successful,
         total_records_failed |->
             stats_from_platform.records_failed + stats_from_db.records_failed,
         writes |-> stats_from_platform.writes \o stats_from_db.writes,
         opened |-> stats_from_platform.opened \cup stats_from_db.opened,
         closed |-> stats_from_platform.closed \cup stats_from_db.closed]

\* the instant datetime.utcnow() returns at the given line of sync_engine.py
\* in the run that owns SyncLog id
utcnow(id, line) == <<"utcnow", id, line>>

\* stats.get(key, default)
Get(stats, key, default) == IF key \in DOMAIN stats THEN stats[key] ELSE default

\* sync_engine.py:303-309 and models.py:150-170  the row execute_sync inserts
NewSyncLog(mid, row) ==
    [field_mapping_id |-> mid,
     sync_direction |-> row.sync_direction,
     status |-> "running",
     completed_at |-> Null,
     records_processed |-> 0,
     records_successful |-> 0,
     records_failed |-> 0,
     error_message |-> Null,
     error_details |-> Null]

\* an execute_sync that inserts the SyncLog before it looks at is_active
execute_sync_begin_logs_first(M, L, seq, mid) ==
    IF mid \notin DOMAIN M
    THEN [res |-> "not_found", logs |-> L, logSeq |-> seq]
    ELSE [res |-> IF M[mid].is_active THEN "running" ELSE "inactive",
          logs |-> ((seq + 1) :> NewSyncLog(mid, M[mid])) @@ L,
          logSeq |-> seq + 1]

\* sync_engine.py:292-311  load the mapping, raise ValueError when it is
\* missing or inactive, else insert the SyncLog and commit
execute_sync_begin(M, L, seq, mid) ==
    IF mid \notin DOMAIN M
    THEN [res |-> "not_found", logs |-> L, logSeq |-> seq]
    ELSE IF ~M[mid].is_active
    THEN [res |-> "inactive", logs |-> L, logSeq |-> seq]
    ELSE [res |-> "running",
          logs |-> ((seq + 1) :> NewSyncLog(mid, M[mid])) @@ L,
          logSeq |-> seq + 1]

\* sync_engine.py:313-322  dispatch on the direction; raised stands for the
\* ValueError of line 322
dispatch(row, e1, e2) ==
    IF row.sync_direction = "from_platform"
    THEN [raised |-> FALSE, stats |-> sync_from_platform_to_database(row, e1)]
    ELSE IF row.sync_direction = "to_platform"
    THEN [raised |-> FALSE, stats |-> sync_from_database_to_platform(row, e1)]
    ELSE IF row.sync_direction = "bidirectional"
    THEN [raised |-> FALSE, stats |-> sync_bidirectional(row, e1, e2)]
    ELSE [raised |-> TRUE, stats |-> EmptyStats]

\* a sealing step that stores the counts but never leaves status running
seal_keeps_running(log, d, id) ==
    [log EXCEPT
        !.completed_at = Some(utcnow(id, 325)),
        !.records_processed =
            Get(d.stats, "total_records_processed", Get(d.stats, "records_processed", 0)),
        !.records_successful =
            Get(d.stats, "total_records_successful", Get(d.stats, "records_successful", 0)),
        !.records_failed =
            Get(d.stats, "total_records_failed", Get(d.stats, "records_failed", 0))]

\* sync_engine.py:324-342  the SyncLog as the run leaves it
seal(log, d, id) ==
    IF d.raised
    THEN [log EXCEPT !.completed_at = Some(utcnow(id, 339)),
                     !.status = "failed",
                     !.error_message = Some("Invalid sync direction")]
    ELSE [log EXCEPT
            !.completed_at = Some(utcnow(id, 325)),
            !.records_processed =
                Get(d.stats, "total_records_processed", Get(d.stats, "records_processed", 0)),
            !.records_successful =
                Get(d.stats, "total_records_successful", Get(d.stats, "records_successful", 0)),
            !.records_failed =
                Get(d.stats, "total_records_failed", Get(d.stats, "records_failed", 0)),
            !.status = "completed",
            !.error_details = IF Get(d.stats, "errors", <<>>) # <<>>
                              THEN Some(d.stats.errors) ELSE @]

\* an execute_sync that never touches last_sync
set_last_sync_never(M, mid, d, id) == M

\* sync_engine.py:334-335  inside the try block, after the SyncLog is sealed:
\* field_mapping.last_sync = datetime.utcnow(); the except branch (337-342)
\* leaves the mapping alone
set_last_sync(M, mid, d, id) ==
    IF d.raised THEN M
    ELSE [M EXCEPT ![mid].last_sync = Some(utcnow(id, 335))]

\* the write attempts of a run, in the order they were issued
WritesOf(row, d) == IF d.raised THEN <<>> ELSE d.stats.writes

\* the clients a run constructed and the clients closed when it returns
ClientsOf(d) == [opened |-> d.stats.opened, closed |-> d.stats.closed]
NoClients == [opened |-> {}, closed |-> {}]

\* a timer job that catches the ValueError of execute_sync and nothing else
execute_sync_job_value_error(res) ==
    IF res \in {"not_found", "inactive"} THEN "error_logged"
    ELSE IF res = "raised" THEN "propagated"
    ELSE IF res = "returned" THEN "info_logged"
    ELSE "running"

\* scheduler.py:35-55  what _execute_sync_job makes of the outcome of
\* execute_sync: except Exception logs every exception (52-53), a return is
\* logged as completed (46-50); nothing is re-raised
execute_sync_job(res) ==
    IF res \in {"not_found", "inactive", "raised"} THEN "error_logged"
    ELSE IF res = "returned" THEN "info_logged"
    ELSE "running"

\* api/mappings.py:152-166  what trigger_manual_sync makes of it: every
\* exception becomes HTTP 500
trigger_manual_sync(res) ==
    IF res \in {"not_found", "inactive", "raised"} THEN "500"
    ELSE IF res = "returned" THEN "200"
    ELSE "running"

\* out: what the caller of execute_sync did with its outcome
OpSync(name, arg, res, via, log, env, writes, clients) ==
    [op |-> name, arg |-> arg, res |-> res,
     again |-> FALSE,
     via |-> via, log |-> log, env |-> env, writes |-> writes,
     clients |-> clients,
     out |-> IF via = "timer" THEN execute_sync_job(res) ELSE trigger_manual_sync(res)]

\* the first half of execute_sync, up to the commit of line 311
Begin(mid, via) ==
    LET b == execute_sync_begin(mappings, logs, logSeq, mid)
    IN  /\ b.logSeq <= MaxLogs
        /\ logs' = b.logs
        /\ logSeq' = b.logSeq
        /\ inflight' = IF b.res = "running"
                       THEN inflight \cup {[log |-> b.logSeq, mapping |-> mid,
                                            row |-> mappings[mid], via |-> via]}
                       ELSE inflight
        /\ last' = OpSync("execute_sync", mid, b.res, via,
                          IF b.res = "running" THEN b.logSeq ELSE 0, <<>>, <<>>, NoClients)
        /\ UNCHANGED <<mappings, mappingSeq, jobs>>

\* scheduler.py:35-55  a timer fires _execute_sync_job(mapping id); a
\* ValueError of execute_sync is caught and logged (52-53).  add_job is called
\* without max_instances (82-89), so the job store runs at most one instance
\* of a job at a time and skips a fire that would overlap it
TimerFire(j) ==
    /\ j \in jobs
    /\ ~(\E r \in inflight : r.via = "timer" /\ JobId(r.mapping) = j.id)
    /\ Begin(j.arg, "timer")

\* api/mappings.py:133-166  POST /mappings/{id}/sync
ManualSync(mid) ==
    IF mid \notin DOMAIN mappings
    THEN /\ last' = Op("trigger_manual_sync", mid, "404")
         /\ UNCHANGED <<mappings, mappingSeq, jobs, logs, logSeq, inflight>>
    ELSE IF ~mappings[mid].is_active
    THEN /\ last' = Op("trigger_manual_sync", mid, "400")
         /\ UNCHANGED <<mappings, mappingSeq, jobs, logs, logSeq, inflight>>
    ELSE Begin(mid, "manual")

\* the second half of execute_sync, sync_engine.py:313-345: run the passes,
\* seal the SyncLog, set last_sync, commit.  The commit raises when the rows
\* were deleted meanwhile (the cascade of a mapping or profile delete)
Finish(r, e1, e2) ==
    /\ r \in inflight
    /\ WellFormed(e1) /\ WellFormed(e2)
    /\ inflight' = inflight \ {r}
    /\ LET d == dispatch(r.row, e1, e2)
       IN  IF r.log \in DOMAIN logs
           THEN /\ logs' = [logs EXCEPT ![r.log] = seal(@, d, r.log)]
                /\ mappings' = set_last_sync(mappings, r.mapping, d, r.log)
                /\ last' = OpSync("execute_sync", r.mapping, "returned", r.via,
                                  r.log, <<e1, e2>>, WritesOf(r.row, d), ClientsOf(d))
           ELSE /\ last' = OpSync("execute_sync", r.mapping, "raised", r.via,
                                  r.log, <<e1, e2>>, WritesOf(r.row, d), ClientsOf(d))
                /\ UNCHANGED <<logs, mappings>>
    /\ UNCHANGED <<mappingSeq, jobs, logSeq>>

\* ---------------------------------------------------------- specification
\* the second environment of a run: only a bidirectional run has a second pass
SecondEnvs(r, E) == IF r.row.sync_direction = "bidirectional" THEN E ELSE {NoEnv}

\* Mapping management, timer fires, manual syncs and process restarts, with
\* runs of every direction interleaved.  The batches are kept to one record
\* and one kind of abort; SpecEngine below runs the full batches.
LifecycleEnvs == {e \in Envs : e.n <= 1 /\ e.abort \in {"none", "fetch"}}

Next ==
    \/ \E dir \in SyncDirection : CreateMapping(dir, DefaultInterval, "products")
    \/ \E mid \in MappingIds : DeleteMapping(mid)
    \/ \E mid \in MappingIds : ToggleMapping(mid)
    \/ DeleteProfile
    \/ \E j \in jobs : TimerFire(j)
    \/ \E mid \in MappingIds : ManualSync(mid)
    \/ \E r \in inflight, e1 \in LifecycleEnvs :
         \E e2 \in SecondEnvs(r, LifecycleEnvs) : Finish(r, e1, e2)
    \/ Lifespan

Spec == Init /\ [][Next]_vars

\* ---------------------------------------------------- engine specification
\* One stored mapping of any direction, as create_mapping leaves it, and the
\* runs of it: timer fires, manual syncs, and every outcome of the passes.
\* The runs share no state but the tables, so the specification follows
\* MaxEngineRuns of them; Spec interleaves runs with everything else.
InitEngineWith(resources) ==
    /\ \E dir \in SyncDirection, resource \in resources :
         LET row == [is_active |-> TRUE,
                     sync_interval_minutes |-> DefaultInterval,
                     sync_direction |-> dir,
                     platform_resource |-> resource,
                     last_sync |-> Null]
         IN  /\ mappings = (1 :> row)
             /\ jobs = add_sync_job({}, 1, row).jobs
    /\ mappingSeq = 1
    /\ logs = <<>>
    /\ logSeq = 0
    /\ inflight = {}
    /\ last = Op("create_mapping", 1, "201")

NextEngine ==
    \/ \E j \in jobs : logSeq < MaxEngineRuns /\ TimerFire(j)
    \/ \E mid \in DOMAIN mappings : logSeq < MaxEngineRuns /\ ManualSync(mid)
    \/ \E r \in inflight, e1 \in Envs :
         \E e2 \in SecondEnvs(r, Envs) : Finish(r, e1, e2)

InitEngine == InitEngineWith({"products"})

SpecEngine == InitEngine /\ [][NextEngine]_vars

\* execute_sync is straight-line code on a worker thread: once it has
\* committed the running SyncLog it goes on to the passes and the final commit
\* unless the process stops
FinishSome ==
    \E r \in inflight, e1 \in Envs :
      \E e2 \in SecondEnvs(r, Envs) : Finish(r, e1, e2)

SpecEngineLive == SpecEngine /\ WF_vars(FinishSome)

\* the same runs for a mapping of any platform resource the schema lets
\* through (schemas.py:155  platform_resource: str)
PlatformResources == {"products", "orders"}
InitResources == InitEngineWith(PlatformResources)

SpecResources == InitResources /\ [][NextEngine]_vars

\* ------------------------------------------------- scheduler specification
\* mapping management and the scheduler API; no sync is executed
NextSched ==
    \/ \E minutes \in Intervals : CreateMapping("bidirectional", minutes, "products")
    \/ \E mid \in MappingIds, active \in {Null, Some(TRUE), Some(FALSE)},
          minutes \in {Null} \cup {Some(i) : i \in Intervals} :
            UpdateMapping(mid, active, minutes)
    \/ \E mid \in MappingIds : DeleteMapping(mid)
    \/ \E mid \in MappingIds : ToggleMapping(mid)
    \/ DeleteProfile
    \/ \E mid \in MappingIds : AddJob(mid)
    \/ \E mid \in MappingIds : UpdateJob(mid)
    \/ \E mid \in MappingIds : RemoveJob(mid)
    \/ Lifespan

SpecSched == Init /\ [][NextSched]_vars

\* ------------------------------------------------------- _transform_data
\* A dict is a function on its keys; field_mapping is the sequence of its
\* items in iteration order, its keys distinct.
SourceFields == {<<"source", i>> : i \in 1..MaxFields}
TargetFields == {<<"target", i>> : i \in 1..MaxFields}
FieldValues == {"v1", "v2"}
Records == UNION {[S -> FieldValues] : S \in SUBSET SourceFields}
Items == SourceFields \X TargetFields
RECURSIVE ItemSeqs(_)
ItemSeqs(n) ==
    IF n = 0 THEN {<<>>}
    ELSE LET shorter == ItemSeqs(n - 1)
         IN  shorter \cup
             {Append(q, it) : q \in {x \in shorter : Len(x) = n - 1},
                              it \in Items}
FieldMappings ==
    {q \in ItemSeqs(MaxFields) :
        \A i, j \in DOMAIN q : i # j => q[i][1] # q[j][1]}
\* transformation_rules: None, or a dict with a rule for some source fields;
\* the code knows no rule kind, so a rule is any JSON value
RuleValues == {"uppercase", "no_such_rule"}
TransformationRules ==
    {Null} \cup
    {Some(r) : r \in UNION {[S -> RuleValues] : S \in SUBSET SourceFields}}

\* transformed[target_field] = value
SetItem(dict, key, value) == (key :> value) @@ dict

\* the loop of a transform that fills the target of an absent source field
RECURSIVE transform_loop_null_fills(_, _, _, _, _)
transform_loop_null_fills(i, data, field_mapping, transformation_rules, transformed) ==
    IF i > Len(field_mapping) THEN transformed
    ELSE LET source_field == field_mapping[i][1]
             target_field == field_mapping[i][2]
         IN  transform_loop_null_fills(i + 1, data, field_mapping, transformation_rules,
                 SetItem(transformed, target_field,
                         IF source_field \in DOMAIN data
                         THEN data[source_field] ELSE "None"))

\* a transform that fills the target of an absent source field with None
transform_data_null_fills(data, field_mapping, transformation_rules) ==
    transform_loop_null_fills(1, data, field_mapping, transformation_rules, <<>>)

\* a rule step that rejects every rule but "uppercase": the value is lost to
\* the exception
apply_rule_rejects_unknown(rule, value) ==
    IF rule = "uppercase" THEN value ELSE "ValueError"

\* sync_engine.py:90-95  the rule is read and the value passes through
apply_rule(rule, value) == value

\* sync_engine.py:86-97  for source_field, target_field in
\* field_mapping.items(): a source field of data gives its value to the
\* target field; a rule is looked up when transformation_rules is a
\* non-empty dict that has the source field (90)
RECURSIVE transform_loop(_, _, _, _, _)
transform_loop(i, data, field_mapping, transformation_rules, transformed) ==
    IF i > Len(field_mapping) THEN transformed
    ELSE LET source_field == field_mapping[i][1]
             target_field == field_mapping[i][2]
             has_rule == /\ transformation_rules # Null
                         /\ DOMAIN transformation_rules[1] # {}
                         /\ source_field \in DOMAIN transformation_rules[1]
         IN  IF source_field \in DOMAIN data
             THEN transform_loop(i + 1, data, field_mapping, transformation_rules,
                      SetItem(transformed, target_field,
                              IF has_rule
                              THEN apply_rule(transformation_rules[1][source_field],
                                              data[source_field])
                              ELSE data[source_field]))
             ELSE transform_loop(i + 1, data, field_mapping, transformation_rules,
                      transformed)

\* sync_engine.py:67-99  SyncEngine._transform_data
transform_data(data, field_mapping, transformation_rules) ==
    transform_loop(1, data, field_mapping, transformation_rules, <<>>)

\* one call of _transform_data; arg holds the three arguments, res the result
TransformData(data, field_mapping, transformation_rules) ==
    /\ last' = Op("transform_data", <<data, field_mapping, transformation_rules>>,
                  transform_data(data, field_mapping, transformation_rules))
    /\ UNCHANGED <<mappings, mappingSeq, jobs, logs, logSeq, inflight>>

\* every call, each on its own behaviour: the function keeps no state
\* between calls
NextTransform ==
    /\ last.op = "init"
    /\ \E data \in Records, field_mapping \in FieldMappings,
          transformation_rules \in TransformationRules :
            TransformData(data, field_mapping, transformation_rules)

SpecTransform == Init /\ [][NextTransform]_vars

\* ------------------------------------------------------ EncryptionManager
\* A str is the sequence of its characters, "" the empty sequence; bytes are
\* sequences of numbers below 256.  Fernet and base64 are library code: a
\* token is the record of what Fernet put into it, the base64 text of bytes
\* and the str of ASCII bytes are tagged values that only the inverse
\* conversion opens.
Alphabet == {"a", "b", "e_acute"}
Strings == UNION {[1..n -> Alphabet] : n \in 0..MaxStrLen}
Ivs == 1..MaxIv

\* the UTF-8 encoding of a character
Utf8(c) == IF c = "a" THEN <<97>> ELSE IF c = "b" THEN <<98>> ELSE <<195, 169>>

\* security.py:80  data.encode()
RECURSIVE str_encode(_)
str_encode(data) ==
    IF data = <<>> THEN <<>> ELSE Utf8(Head(data)) \o str_encode(Tail(data))

\* bytes.decode("latin-1"): one character for every byte
RECURSIVE latin1_decode(_)
latin1_decode(bytes) ==
    IF bytes = <<>> THEN <<>>
    ELSE <<IF bytes[1] = 97 THEN "a"
           ELSE IF bytes[1] = 98 THEN "b"
           ELSE IF bytes[1] = 195 THEN "A_tilde"
           ELSE "copyright_sign">> \o latin1_decode(Tail(bytes))

\* security.py:90  decrypted.decode(): a byte below 128 is one character, a
\* lead byte takes its continuation byte with it
RECURSIVE bytes_decode(_)
bytes_decode(bytes) ==
    IF bytes = <<>> THEN <<>>
    ELSE IF bytes[1] < 128
         THEN <<CHOOSE c \in Alphabet : Utf8(c) = <<bytes[1]>> >>
              \o bytes_decode(Tail(bytes))
         ELSE <<CHOOSE c \in Alphabet : Utf8(c) = SubSeq(bytes, 1, 2)>>
              \o bytes_decode(SubSeq(bytes, 3, Len(bytes)))

\* security.py:72-74  the one key of the process, derived from
\* settings.encryption_key
FernetKey == "sha256(settings.encryption_key)"

\* Fernet.encrypt: a token with a fresh iv, the ciphertext under the key and
\* the HMAC of the key
fernet_encrypt(key, iv, data) ==
    [iv |-> iv, ciphertext |-> [key |-> key, data |-> data], hmac |-> key]

\* Fernet.decrypt: InvalidToken unless the token was made with the key
fernet_decrypt(key, token) ==
    IF token.hmac = key /\ token.ciphertext.key = key
    THEN [ok |-> TRUE, data |-> token.ciphertext.data]
    ELSE [ok |-> FALSE, data |-> <<>>]

\* base64.urlsafe_b64encode and urlsafe_b64decode
urlsafe_b64encode(bytes) == <<"b64", bytes>>
urlsafe_b64decode(text) == text[2]

\* .decode() of the base64 bytes (81) and .encode() of the stored str (88)
ascii_decode(bytes) == <<"str", bytes>>
ascii_encode(text) == text[2]

\* security.py:76-81  EncryptionManager.encrypt; cipher counts the calls of Fernet
encrypt(data, iv) ==
    IF data = <<>>
    THEN [out |-> <<>>, cipher |-> 0]
    ELSE LET encrypted == fernet_encrypt(FernetKey, iv, str_encode(data))
         IN  [out |-> ascii_decode(urlsafe_b64encode(encrypted)), cipher |-> 1]

\* a decrypt that decodes the plaintext bytes as latin-1
decrypt_latin1(encrypted_data) ==
    IF encrypted_data = <<>>
    THEN [out |-> <<>>, cipher |-> 0, raised |-> FALSE]
    ELSE LET decoded == urlsafe_b64decode(ascii_encode(encrypted_data))
             decrypted == fernet_decrypt(FernetKey, decoded)
         IN  IF decrypted.ok
             THEN [out |-> latin1_decode(decrypted.data), cipher |-> 1, raised |-> FALSE]
             ELSE [out |-> <<>>, cipher |-> 1, raised |-> TRUE]

\* security.py:83-92  EncryptionManager.decrypt; raised is the ValueError of
\* line 92
decrypt(encrypted_data) ==
    IF encrypted_data = <<>>
    THEN [out |-> <<>>, cipher |-> 0, raised |-> FALSE]
    ELSE LET decoded == urlsafe_b64decode(ascii_encode(encrypted_data))
             decrypted == fernet_decrypt(FernetKey, decoded)
         IN  IF decrypted.ok
             THEN [out |-> bytes_decode(decrypted.data), cipher |-> 1, raised |-> FALSE]
             ELSE [out |-> <<>>, cipher |-> 1, raised |-> TRUE]

\* a credential is encrypted to be stored and decrypted when a client is
\* built from the stored value (sync_engine.py:36, 42-43, 54-55)
EncryptDecrypt(data, iv) ==
    /\ LET e == encrypt(data, iv)
           d == decrypt(e.out)
       IN  last' = Op("encrypt_decrypt", <<data, iv>>,
                      [token |-> e.out, back |-> d.out, raised |-> d.raised,
                       cipher |-> e.cipher + d.cipher])
    /\ UNCHANGED <<mappings, mappingSeq, jobs, logs, logSeq, inflight>>

\* every round trip, each on its own behaviour
NextCrypto ==
    /\ last.op = "init"
    /\ \E data \in Strings, iv \in Ivs : EncryptDecrypt(data, iv)

SpecCrypto == Init /\ [][NextCrypto]_vars

\* ------------------------------------------------------- platform clients
PlatformTypes == {"shopify", "woocommerce"}
\* get_data knows products, orders and customers (resource_methods);
\* get_available_resources also lists variants
resource_methods == {"products", "orders", "customers"}
ResourceTypes == {"products", "orders", "variants"}

\* The network during one call: the first fails requests fail in the same
\* way (an HTTP 4xx answer, an HTTP 5xx answer, or no answer), every later
\* request is answered 200.
FailureKinds == {"http_4xx", "http_5xx", "timeout"}
Networks == [kind : FailureKinds, fails : 0..MaxFails]
Response(net, i) == IF i <= net.fails THEN net.kind ELSE "ok"

\* the records one request returns at most
PageSize(platform) == IF platform = "shopify" THEN ShopifyLimit ELSE WooPerPage
\* the records the resource holds: none, one, a full page, more than a page
Available(platform) == {0, 1, PageSize(platform), PageSize(platform) + 1}
Min(a, b) == IF a <= b THEN a ELSE b

\* get_products, get_orders, get_customers under @retry: an attempt sends one
\* request; raise_for_status raises for a 4xx or 5xx answer and the transport
\* raises without an answer; tenacity calls again after every exception and
\* raises RetryError after the third.  sent counts the requests sent so far.
RECURSIVE resource_method(_, _, _)
resource_method(attempt, sent, net) ==
    IF Response(net, sent + 1) = "ok"
    THEN [raised |-> FALSE, error |-> "none", requests |-> sent + 1]
    ELSE IF attempt >= StopAfterAttempt
         THEN [raised |-> TRUE, error |-> "RetryError", requests |-> sent + 1]
         ELSE resource_method(attempt + 1, sent + 1, net)

\* the body of get_data: ValueError for a resource type that is not in
\* resource_methods, else the call of the method
get_data_body(resource_type, sent, net) ==
    IF resource_type \notin resource_methods
    THEN [raised |-> TRUE, error |-> "ValueError", requests |-> sent]
    ELSE resource_method(1, sent, net)

\* get_data under its own @retry: the body is called again after every
\* exception it raises, the ValueError and the RetryError of the method
\* included; calls counts the executions of the body
RECURSIVE get_data_retry(_, _, _, _)
get_data_retry(attempt, resource_type, sent, net) ==
    LET r == get_data_body(resource_type, sent, net)
    IN  IF ~r.raised
        THEN [raised |-> FALSE, error |-> "none", requests |-> r.requests,
              calls |-> attempt]
        ELSE IF attempt >= StopAfterAttempt
             THEN [raised |-> TRUE, error |-> "RetryError", requests |-> r.requests,
                   calls |-> attempt]
             ELSE get_data_retry(attempt + 1, resource_type, r.requests, net)

\* ShopifyClient.get_data / WooCommerceClient.get_data as the sync engine
\* calls it, with the resource type only: one page of the resource
get_data(platform, resource_type, net, available) ==
    LET r == get_data_retry(1, resource_type, 0, net)
    IN  [raised |-> r.raised, error |-> r.error, requests |-> r.requests,
         calls |-> r.calls,
         records |-> IF r.raised THEN 0 ELSE Min(available, PageSize(platform))]

\* test_connection under @retry.  Shopify: raise_for_status, so every answer
\* but 2xx raises and is tried again.  WooCommerce: returns status_code == 200,
\* so an HTTP answer ends the probe and only a missing answer raises.
RECURSIVE test_connection(_, _, _, _)
test_connection(attempt, platform, sent, net) ==
    LET response == Response(net, sent + 1)
    IN  IF response = "ok"
        THEN [raised |-> FALSE, ret |-> TRUE, requests |-> sent + 1]
        ELSE IF platform = "woocommerce" /\ response \in {"http_4xx", "http_5xx"}
        THEN [raised |-> FALSE, ret |-> FALSE, requests |-> sent + 1]
        ELSE IF attempt >= StopAfterAttempt
        THEN [raised |-> TRUE, ret |-> FALSE, requests |-> sent + 1]
        ELSE test_connection(attempt + 1, platform, sent + 1, net)

\* sync_engine.py:121-138  the start of the platform-to-database pass: both
\* clients are constructed, then get_data is called once and the pass works
\* on the list it returns; opened is what was constructed before the call
GetData(platform, resource_type, net, available) ==
    /\ LET r == get_data(platform, resource_type, net, available)
       IN  last' = Op("get_data",
                      [platform |-> platform, resource_type |-> resource_type,
                       net |-> net, available |-> available],
                      [raised |-> r.raised, error |-> r.error,
                       requests |-> r.requests, calls |-> r.calls,
                       records |-> r.records,
                       opened |-> opened_by("from_platform",
                                            IF r.raised THEN "fetch" ELSE "none")])
    /\ UNCHANGED <<mappings, mappingSeq, jobs, logs, logSeq, inflight>>

\* api/connections.py:60, 63, 181  a connection probe
TestConnection(platform, net) ==
    /\ last' = Op("test_connection", [platform |-> platform, net |-> net],
                  test_connection(1, platform, 0, net))
    /\ UNCHANGED <<mappings, mappingSeq, jobs, logs, logSeq, inflight>>

\* every call, each on its own behaviour: a client keeps no state between calls
NextClient ==
    /\ last.op = "init"
    /\ \/ \E platform \in PlatformTypes, resource_type \in ResourceTypes,
             net \in Networks :
               \E available \in Available(platform) :
                  GetData(platform, resource_type, net, available)
       \/ \E platform \in PlatformTypes, net \in Networks :
               TestConnection(platform, net)

SpecClient == Init /\ [][NextClient]_vars

\* ---------------------------------------------------------- engine claims

\* the passes of the run the latest step finished, and whether one aborted
PassesOf(l) == {i \in 1..Len(l.env) : l.env[i].abort # "unused"}
Returned == last.op = "execute_sync" /\ last.res = "returned"

\* C1: execute_sync on a mapping id that does not exist or on a mapping whose
\* is_active is false raises (not found exactly when the row is missing,
\* inactive exactly when it is stored with is_active false) and the
\* sync_logs table is the same after the call as before it; the manual sync
\* endpoint rejects such an id with 404 or 400 and creates no row either.
C1_NoRunForMissingOrInactive ==
    [][/\ (last'.op = "execute_sync" /\ last'.res \in {"not_found", "inactive", "running"})
            => /\ (last'.res = "not_found") = (last'.arg \notin DOMAIN mappings)
               /\ (last'.res = "inactive") =
                      (last'.arg \in DOMAIN mappings /\ ~mappings[last'.arg].is_active)
               /\ last'.res # "running" => (logs' = logs /\ inflight' = inflight)
       /\ last'.op = "trigger_manual_sync"
            => /\ (last'.res = "404") = (last'.arg \notin DOMAIN mappings)
               /\ (last'.res = "400") =
                      (last'.arg \in DOMAIN mappings /\ ~mappings[last'.arg].is_active)
               /\ logs' = logs /\ inflight' = inflight]_vars

\* C1 witness: a timer fired execute_sync on an inactive mapping while the
\* table holds SyncLog rows
C1_Witness ==
    /\ last.op = "execute_sync" /\ last.res = "inactive"
    /\ DOMAIN logs # {}

\* execute_sync was called for a mapping id that is not stored, while the
\* table holds SyncLog rows
C1_WitnessMissing ==
    /\ last.op = "execute_sync" /\ last.res = "not_found"
    /\ DOMAIN logs # {}

\* C2: every SyncLog row is inserted with status running and completed_at
\* null; a stored row changes only from running to completed or failed, with
\* completed_at set; a row that is completed or failed is never changed
\* again by any operation; and every execute_sync that returns leaves its
\* row, which was running, completed or failed.
C2_SyncRunLifecycle ==
    [][/\ \A id \in DOMAIN logs' :
            /\ id \notin DOMAIN logs
                 => (logs'[id].status = "running" /\ logs'[id].completed_at = Null)
            /\ (id \in DOMAIN logs /\ logs[id].status # "running")
                 => logs'[id] = logs[id]
            /\ (id \in DOMAIN logs /\ logs[id].status = "running" /\ logs'[id] # logs[id])
                 => /\ logs'[id].status \in {"completed", "failed"}
                    /\ logs'[id].completed_at # Null
       /\ (last'.op = "execute_sync" /\ last'.res = "returned")
            => /\ logs[last'.log].status = "running"
               /\ logs'[last'.log].status \in {"completed", "failed"}]_vars

\* C2 witness: a second run of a mapping returned while the row of its first
\* run was already sealed
C2_Witness ==
    /\ Returned
    /\ \E id \in DOMAIN logs :
          /\ id # last.log
          /\ logs[id].field_mapping_id = last.arg
          /\ logs[id].status = "completed"
          /\ logs[id].records_processed # logs[last.log].records_processed

\* the write attempts a pass must have issued: every record, in order
ExpectedWrites(pass, e) ==
    [i \in 1..e.n |-> [pass |-> pass, rec |-> i, ok |-> (i \notin e.bad)]]

\* C3: a run none of whose passes aborted, whose fetches returned N records
\* in all of which k fail to write, attempts the write of every record in
\* order, the failing ones included, and its SyncLog has records_processed =
\* N, records_failed = k, records_successful = N - k and status completed.
C3_PartialFailure ==
    (Returned /\ \A i \in PassesOf(last) : last.env[i].abort = "none") =>
        LET log == logs[last.log]
            N == last.env[1].n + last.env[2].n
            k == Cardinality(last.env[1].bad) + Cardinality(last.env[2].bad)
            dir == log.sync_direction
        IN  /\ log.records_processed = N
            /\ log.records_failed = k
            /\ log.records_successful = N - k
            /\ log.status = "completed"
            /\ last.writes =
                  IF dir = "from_platform" THEN ExpectedWrites("from_platform", last.env[1])
                  ELSE IF dir = "to_platform" THEN ExpectedWrites("to_platform", last.env[1])
                  ELSE ExpectedWrites("from_platform", last.env[1])
                       \o ExpectedWrites("to_platform", last.env[2])

\* C3 witness: a platform-to-database run whose first record failed to write
\* and whose second record was written
C3_Witness ==
    /\ Returned
    /\ logs[last.log].sync_direction = "from_platform"
    /\ last.env[1].abort = "none" /\ last.env[1].n >= 2
    /\ 1 \in last.env[1].bad /\ 2 \notin last.env[1].bad
    /\ logs[last.log].records_failed = 1

\* C4: a run in which the construction of a client or the fetch of the batch
\* failed ends with status failed and a non-null error_message.  (The claim
\* as stated; the passes catch the exception and the run is sealed completed.)
C4_TotalAbortFails ==
    (Returned /\ \E i \in PassesOf(last) : last.env[i].abort \in Aborts) =>
        /\ logs[last.log].status = "failed"
        /\ logs[last.log].error_message # Null

\* C5: no two executions of the same mapping are in flight at once: no two
\* SyncLog rows of one mapping are both in status running with their runs
\* under way.  (The claim as stated; execute_sync takes no lock.)
C5_MutualExclusion ==
    \A r1, r2 \in inflight :
        (/\ r1.mapping = r2.mapping
         /\ r1.log \in DOMAIN logs /\ logs[r1.log].status = "running"
         /\ r2.log \in DOMAIN logs /\ logs[r2.log].status = "running")
        => r1 = r2

\* ------------------------------------------------------ scheduler claims

\* C6: in every reachable state a mapping whose is_active is false has no
\* live scheduled timer.  (The claim as stated; the admin panel toggle breaks it.)
C6_InactiveHasNoTimer ==
    \A mid \in DOMAIN mappings :
        ~mappings[mid].is_active => TimersOf(jobs, mid) = {}

\* C7: no sequence of mapping and scheduler operations leaves more than one
\* timer per mapping identity, and add_sync_job called twice in a row for the
\* same active mapping leaves exactly one timer and the job store as the
\* first call left it.
C7_AddJobIdempotent ==
    /\ [](\A mid \in MappingIds : Cardinality(TimersOf(jobs, mid)) <= 1)
    /\ [][(last'.op = "add_sync_job" /\ last'.res = "job_id")
            => Cardinality(TimersOf(jobs', last'.arg)) = 1]_vars
    /\ [][(last'.op = "add_sync_job" /\ last'.again /\ last.res = "job_id")
            => (jobs' = jobs /\ Cardinality(TimersOf(jobs', last'.arg)) = 1)]_vars

\* C7 witness: add_sync_job was called twice in a row for an active mapping
\* that has another interval than the other mapping's timer
C7_Witness ==
    /\ last.op = "add_sync_job" /\ last.again /\ last.res = "job_id"
    /\ Cardinality(jobs) = 2
    /\ \E j1, j2 \in jobs : j1.minutes # j2.minutes

\* C8: update_sync_job(mapping) leaves the job store that remove_sync_job of
\* the mapping's job id followed by add_sync_job(mapping) leaves.  (The claim
\* as stated; it fails for an inactive mapping that still has a timer.)
C8_UpdateIsRemoveThenAdd ==
    [][last'.op = "update_sync_job"
        => jobs' = add_sync_job(remove_sync_job(jobs, JobId(last'.arg)).jobs,
                                last'.arg, mappings[last'.arg]).jobs]_vars

\* C9: remove_sync_job never raises, removes the timer of the job id it is
\* given and leaves the timers of every other mapping as they were, whether
\* or not the job id had a timer.
C9_RemoveJobFrame ==
    [][last'.op = "remove_sync_job"
        => /\ last'.res \in {"removed", "absent"}
           /\ (last'.res = "absent") = (TimersOf(jobs, last'.arg) = {})
           /\ TimersOf(jobs', last'.arg) = {}
           /\ \A other \in MappingIds \ {last'.arg} :
                  TimersOf(jobs', other) = TimersOf(jobs, other)]_vars

\* C9 witness: remove_sync_job was called on a job id without a timer while
\* another mapping has one
C9_Witness ==
    /\ last.op = "remove_sync_job" /\ last.res = "absent"
    /\ jobs # {}

\* C10: after reschedule_all_jobs at process start every mapping with
\* is_active = true has exactly one timer, and that timer's interval is the
\* mapping's sync_interval_minutes.
C10_RescheduleAll ==
    last.op = "reschedule_all_jobs" =>
        \A mid \in ActiveMappings(mappings) :
            /\ Cardinality(TimersOf(jobs, mid)) = 1
            /\ \A j \in TimersOf(jobs, mid) :
                  j.minutes = mappings[mid].sync_interval_minutes

\* C10 witness: a process start that had to change the persisted job store
\* to give both active mappings their timers
C10_Witness ==
    /\ last.op = "reschedule_all_jobs" /\ last.res = "rescheduled"
    /\ Cardinality(ActiveMappings(mappings)) = 2

\* ------------------------------------------------- bidirectional claims

\* the run the latest step finished belongs to a bidirectional mapping
ReturnedBidirectional ==
    Returned /\ logs[last.log].sync_direction = "bidirectional"

\* the write attempts of one pass, in the order of the run
WritesOfPass(pass) == SelectSeq(last.writes, LAMBDA w : w.pass = pass)

\* the records a pass fetched: none when it aborted
Fetched(e) == IF e.abort = "none" THEN e.n ELSE 0

\* C11: within one run of a bidirectional mapping no write attempt of the
\* database-to-platform pass comes before a write attempt of the
\* platform-to-database pass, and when the first database-to-platform write
\* is attempted every record the platform-to-database pass fetched has had
\* its write attempted.
C11_BidirectionalOrdering ==
    ReturnedBidirectional =>
        \A i \in DOMAIN last.writes :
            last.writes[i].pass = "to_platform" =>
                /\ \A j \in DOMAIN last.writes :
                       last.writes[j].pass = "from_platform" => j < i
                /\ 1..Fetched(last.env[1]) \subseteq {last.writes[j].rec : j \in 1..(i - 1)}

\* C11 witness: a bidirectional run that attempted writes in both passes
C11_Witness ==
    /\ ReturnedBidirectional
    /\ \E i, j \in DOMAIN last.writes :
          /\ last.writes[i].pass = "from_platform"
          /\ last.writes[j].pass = "to_platform"

\* C12: the counts of a bidirectional SyncLog are the sums of the counts of
\* its two passes, each pass counted by what its own fetch and its own
\* writes did: a pass that aborted contributes nothing and the other pass
\* still attempts the write of every record it fetched.
C12_PassesIndependent ==
    ReturnedBidirectional =>
        LET log == logs[last.log]
            e1 == last.env[1]
            e2 == last.env[2]
        IN  /\ log.records_processed = Fetched(e1) + Fetched(e2)
            /\ log.records_failed = Cardinality(e1.bad) + Cardinality(e2.bad)
            /\ log.records_successful =
                   (Fetched(e1) - Cardinality(e1.bad)) + (Fetched(e2) - Cardinality(e2.bad))
            /\ WritesOfPass("from_platform") =
                   IF e1.abort = "none" THEN ExpectedWrites("from_platform", e1) ELSE <<>>
            /\ WritesOfPass("to_platform") =
                   IF e2.abort = "none" THEN ExpectedWrites("to_platform", e2) ELSE <<>>

\* C12 witness: the platform fetch of a bidirectional run failed and its
\* database-to-platform pass processed two records, one of which failed
C12_Witness ==
    /\ ReturnedBidirectional
    /\ last.env[1].abort = "fetch"
    /\ last.env[2].abort = "none" /\ last.env[2].n = 2
    /\ Cardinality(last.env[2].bad) = 1
    /\ logs[last.log].records_processed = 2
    /\ logs[last.log].records_failed = 1

\* ------------------------------------------------------ transform claims

\* C13: the keys of _transform_data(R, M, rules) are exactly the target
\* fields M[s] of the source fields s that are keys of R, each holding the
\* value R has for a source field mapped to it: a source field absent from R
\* adds no key, no value is None-filled, and no other key appears; the
\* result is the function of the three arguments and of nothing else.
C13_TransformKeys ==
    last.op = "transform_data" =>
        LET data == last.arg[1]
            field_mapping == last.arg[2]
            present == {i \in DOMAIN field_mapping : field_mapping[i][1] \in DOMAIN data}
        IN  /\ DOMAIN last.res = {field_mapping[i][2] : i \in present}
            /\ \A t \in DOMAIN last.res :
                   \E i \in present : /\ field_mapping[i][2] = t
                                      /\ last.res[t] = data[field_mapping[i][1]]
            /\ last.res = transform_data(data, field_mapping, last.arg[3])

\* C13 witness: a field mapping with two items, the source field of one
\* present in the record and that of the other absent; the result has the one key
C13_Witness ==
    /\ last.op = "transform_data"
    /\ Len(last.arg[2]) = 2
    /\ last.arg[2][1][1] \in DOMAIN last.arg[1]
    /\ last.arg[2][2][1] \notin DOMAIN last.arg[1]
    /\ last.arg[2][1][2] # last.arg[2][2][2]
    /\ DOMAIN last.res = {last.arg[2][1][2]}

\* ----------------------------------------------------- credential claims

\* C14: for every non-empty string s, decrypt(encrypt(s)) returns s and
\* raises nothing; encrypt of the empty string is the empty string, decrypt
\* of the empty string is the empty string, and neither calls the cipher.
C14_CredentialRoundTrip ==
    last.op = "encrypt_decrypt" =>
        LET s == last.arg[1]
        IN  /\ s # <<>> => /\ ~last.res.raised
                           /\ last.res.back = s
                           /\ last.res.token # <<>>
            /\ s = <<>> => /\ last.res.token = <<>>
                           /\ last.res.back = <<>>
                           /\ ~last.res.raised
                           /\ last.res.cipher = 0

\* C14 witness: a string with a character outside ASCII went through the
\* cipher and came back
C14_Witness ==
    /\ last.op = "encrypt_decrypt"
    /\ Len(last.arg[1]) >= 2
    /\ \E i \in DOMAIN last.arg[1] : last.arg[1][i] = "e_acute"
    /\ last.res.cipher = 2
    /\ last.res.back = last.arg[1]

\* ---------------------------------------------------------- run claims

\* C15: every client a sync run constructed, database client and platform
\* client, is closed when the run returns, whatever the exit path of its
\* passes.  (The claim as stated; a fetch that raises skips db_client.close().)
C15_ClientsClosed ==
    Returned => last.clients.opened \subseteq last.clients.closed

\* the run that took the clock reading t
ReadBy(t) == t[2]

C17_TimerFireRecovers ==
    [][(last'.op = "execute_sync" /\ last'.via = "timer") =>
         /\ last'.out \in {"running", "info_logged", "error_logged"}
         /\ last'.res \in {"not_found", "inactive", "raised"}
               => last'.out = "error_logged"
         /\ jobs' = jobs]_vars

\* C17 witness: the commit of a timer-fired run raised, and the timers of two
\* mappings are still scheduled
C17_Witness ==
    /\ last.op = "execute_sync" /\ last.via = "timer"
    /\ last.res = "raised" /\ last.out = "error_logged"
    /\ Cardinality(jobs) = 2

\* C18: a SyncLog row that exists in one state exists in every later state.
\* (The claim as stated; the delete of a mapping or profile cascades to the rows.)
C18_NoSyncRunDeleted ==
    [][\A id \in DOMAIN logs : id \in DOMAIN logs']_vars

\* the per-record error strings a SyncLog carries in error_details
RecordErrors(log) ==
    IF log.error_details = Null THEN {}
    ELSE {i \in DOMAIN log.error_details[1] :
             log.error_details[1][i] = "Failed to sync record"}

\* C19: a SyncLog sealed with records_failed = k carries k per-record error
\* strings in error_details, whatever the direction of the run.  (The claim
\* as stated; a bidirectional run stores none.)
C19_ErrorDetailsPersisted ==
    Returned =>
        Cardinality(RecordErrors(logs[last.log])) = logs[last.log].records_failed

\* C20: add_sync_job of a mapping whose is_active is false returns None and
\* leaves the job store as it was before the call: no timer is installed and
\* none is removed.
C20_AddJobInactiveNoop ==
    [][(last'.op = "add_sync_job" /\ ~mappings[last'.arg].is_active) =>
         /\ last'.res = "none"
         /\ jobs' = jobs]_vars

\* C20 witness: add_sync_job was called for an inactive mapping that still
\* has its timer, and the timer is still there
C20_Witness ==
    /\ last.op = "add_sync_job" /\ last.res = "none"
    /\ ~mappings[last.arg].is_active
    /\ TimersOf(jobs, last.arg) # {}

\* C22: for every record, field mapping and rule set, rules of any kind
\* included, _transform_data returns a dict of field values and raises
\* nothing, and a target field holds, unchanged, the value of the last
\* present source field mapped to it, whether that field has a rule or not.
C22_TransformTotal ==
    last.op = "transform_data" =>
        LET data == last.arg[1]
            field_mapping == last.arg[2]
            present == {i \in DOMAIN field_mapping : field_mapping[i][1] \in DOMAIN data}
        IN  /\ \A t \in DOMAIN last.res : last.res[t] \in FieldValues
            /\ \A i \in present :
                   (\A j \in present : field_mapping[j][2] = field_mapping[i][2] => j <= i)
                   => /\ field_mapping[i][2] \in DOMAIN last.res
                      /\ last.res[field_mapping[i][2]] = data[field_mapping[i][1]]

\* C22 witness: the rule set has a rule of no known kind for a source field
\* that is present and mapped, and the target carries the source value
C22_Witness ==
    /\ last.op = "transform_data"
    /\ last.arg[3] # Null
    /\ \E i \in DOMAIN last.arg[2] :
          /\ last.arg[2][i][1] \in DOMAIN last.arg[1]
          /\ last.arg[2][i][1] \in DOMAIN last.arg[3][1]
          /\ last.arg[3][1][last.arg[2][i][1]] = "no_such_rule"
          /\ last.res[last.arg[2][i][2]] = last.arg[1][last.arg[2][i][1]]

\* C24: a database-to-platform run whose fetch returned n rows has attempted
\* the write of every row to the platform, whatever the platform resource,
\* and counts as successful exactly the rows whose write was issued and
\* returned.  (The claim as stated; only products are written.)
C24_ToSourceWritesEveryRow ==
    (/\ Returned
     /\ logs[last.log].sync_direction = "to_platform"
     /\ last.env[1].abort = "none") =>
        /\ last.writes = ExpectedWrites("to_platform", last.env[1])
        /\ logs[last.log].records_successful =
               Cardinality({i \in DOMAIN last.writes : last.writes[i].ok})

\* C29: a SyncLog that execute_sync has inserted with status running is
\* eventually completed or failed, whichever step of the passes raises.
C29_RunTerminates ==
    \A id \in 1..MaxLogs :
        (id \in DOMAIN logs /\ logs[id].status = "running")
            ~> (id \in DOMAIN logs /\ logs[id].status \in {"completed", "failed"})

\* C29 witness: a run in which the construction of a client raised has its
\* SyncLog in a terminal status
C29_Witness ==
    /\ Returned
    /\ last.env[1].abort \in {"platform_client", "db_client"}
    /\ logs[last.log].status \in {"completed", "failed"}
    /\ logs[last.log].completed_at # Null

\* C30: every SyncLog, of any direction, has records_successful >= 0,
\* records_failed >= 0 and records_processed >= 0, and a completed or failed
\* one has records_processed = records_successful + records_failed.
C30_CountConsistency ==
    \A id \in DOMAIN logs :
        /\ logs[id].records_successful >= 0
        /\ logs[id].records_failed >= 0
        /\ logs[id].records_processed >= 0
        /\ logs[id].status \in {"completed", "failed"}
             => logs[id].records_processed =
                   logs[id].records_successful + logs[id].records_failed

\* C30 witness: a completed bidirectional run with a failed and a successful
\* record in each pass
C30_Witness ==
    /\ ReturnedBidirectional
    /\ logs[last.log].status = "completed"
    /\ \A i \in {1, 2} : /\ last.env[i].n >= 2
                         /\ Cardinality(last.env[i].bad) = 1
    /\ logs[last.log].records_failed = 2
    /\ logs[last.log].records_successful >= 2

\* ------------------------------------------------- mapping table claims

\* C21: every stored mapping has sync_interval_minutes > 0 and every timer in
\* the job store has a positive interval.  (The claim as stated; neither the
\* schema nor create_mapping, update_mapping or add_sync_job checks the value.)
C21_IntervalPositive ==
    /\ \A mid \in DOMAIN mappings : mappings[mid].sync_interval_minutes > 0
    /\ \A j \in jobs : j.minutes > 0

\* C28: every timer in the job store refers to a mapping that is stored.
\* (The claim as stated; the cascade of a profile delete leaves the timers.)
C28_TimersReferToMappings ==
    \A j \in jobs : j.arg \in DOMAIN mappings

\* ------------------------------------------------- platform client claims

\* C23: the fetch of a platform-to-database pass returns every record the
\* resource holds, also when it holds more than one page.  (The claim as
\* stated; get_data is called once and returns one page.)
C23_FetchesAllPages ==
    (last.op = "get_data" /\ ~last.res.raised) =>
        last.res.records = last.arg.available

\* C25: a call that met a failure was tried again only if the failure was
\* transient: a call whose requests are answered with an HTTP 4xx, a fetch
\* or a connection probe, has sent exactly one request.  (The claim as
\* stated; tenacity retries on every exception.)
C25_NoRetryOnClientError ==
    (/\ last.op \in {"get_data", "test_connection"}
     /\ last.arg.net.kind = "http_4xx" /\ last.arg.net.fails >= 1
     /\ last.op = "get_data" => last.arg.resource_type \in resource_methods)
    => last.res.requests = 1

\* C26: one get_data sends at most three requests.  (The claim as stated;
\* get_data and the method it calls are both under @retry.)
C26_RetriesBounded ==
    last.op = "get_data" => last.res.requests <= StopAfterAttempt

\* C27: get_data of a resource type the client does not support fails with
\* the unsupported-resource error after one call of the body, sends no
\* request, and the pass has opened no database client by then.  (The claim
\* as stated.)
C27_UnsupportedResourceAborts ==
    (last.op = "get_data" /\ last.arg.resource_type \notin resource_methods) =>
        /\ last.res.raised /\ last.res.error = "ValueError"
        /\ last.res.requests = 0
        /\ last.res.calls = 1
        /\ <<"from_platform", "db_client">> \notin last.res.opened

====
